---- MODULE Spec2Model ----
(***************************************************************************)
(* Model of package dbg (src/dbg.go): a leveled console logger.            *)
(*                                                                         *)
(* A Go string is modelled as a sequence of tokens.  A token is either a   *)
(* piece of literal text or one '%' verb of package fmt ("%s", "%q", "%v", *)
(* "%2e"), or "%!", the two characters that open every error marker fmt    *)
(* prints ("%!v(MISSING)", "%!(EXTRA ...)") and that fmt reads as the      *)
(* invalid verb '!' when such text is used as a format again.              *)
(*                                                                         *)
(* log.Printf(format, args...) is fmt.Sprintf followed by one              *)
(* Logger.Output call, which holds the logger's mutex across one Write to  *)
(* the sink: appending one record to sink is one atomic step.              *)
(* The header the standard logger puts before a line (date and time) and   *)
(* the newline it puts after it are not part of the record.                *)
(***************************************************************************)
EXTENDS Integers, Sequences, FiniteSets

VARIABLES
    flags,         \* the build's constants Debugging, v, i, l, Develop
    now,           \* the wall clock, as time.Now().UnixNano() reads it
    clockSetBack,  \* history: the wall clock was set backwards at some point
    call,          \* per goroutine: position in its call and the call's locals
    sink,          \* the process-wide log sink: the records written, in order
    maxId,         \* history: <<greatest id returned so far>>, <<>> if none
    req,           \* the *http.Request handed to GetRequest
    reqOut         \* what GetRequest returned, <<>> before the call

vars == <<flags, now, clockSetBack, call, sink, maxId, req, reqOut>>

\* ---------------------------------------------------------------- bounds
StartTime == 9
MaxTime == 1

\* ------------------------------------------------------------- constants
KNRM == "ESC[0m"
KFNT == "ESC[2m"
KRED == "ESC[31m"
KGRN == "ESC[32m"
KYEL == "ESC[33m"
KMAG == "ESC[35m"
\* "\033[0m" and "\x1B[0m" are the same four bytes
KRESET == "ESC[0m"

Callers == {"g1", "g2"}
Levels == {"DEBUG", "VERBOSE", "INFO", "WARN", "ERROR", "WTF"}
StampLevels == {"INFO", "WARN", "ERROR", "WTF"}

\* inputs of the level functions: tag, format, args
Inputs == {[tag |-> <<"db">>, format |-> <<"conn lost">>, args |-> <<>>],
           [tag |-> <<"net">>, format |-> <<"retry ", "%v">>,
            args |-> << <<"50", "%v">> >>],
           [tag |-> <<"%v">>, format |-> <<"retry ", "%v">>,
            args |-> << <<"3">> >>]}
\* what runtime/debug.Stack() may return
Stacks == {<<"main.f()">>, <<"gopkg.in/yaml", "%2e", "v2.f()">>}

\* inputs of GetRequest
Methods == {"GET", "POST", "PUT"}
Paths == {"/", "/x", "/x/y"}
Queries == {"", "a=1", "b=2"}
NoRequest == [Method |-> "", Path |-> "", RawQuery |-> ""]

\* ------------------------------------------------------------ package fmt
Verbs == {"%s", "%q", "%v", "%2e"}
BadVerb == "%!"

VerbChar(tok) ==
    CASE tok = "%s" -> "s"
      [] tok = "%q" -> "q"
      [] tok = "%v" -> "v"
      [] tok = "%2e" -> "e"
      [] OTHER -> "!"

\* a verb with no operand left
Missing(tok) == <<BadVerb, VerbChar(tok), "(MISSING)">>

\* one string operand under one verb
FormatArg(tok, arg) ==
    CASE tok \in {"%s", "%v"} -> arg
      [] tok = "%q" -> <<"\"">> \o arg \o <<"\"">>
      [] OTHER -> <<BadVerb, VerbChar(tok), "(string=">> \o arg \o <<")">>

RECURSIVE ExtraArgs(_)
ExtraArgs(args) ==
    IF args = <<>> THEN <<>>
    ELSE <<"string=">> \o Head(args)
         \o (IF Tail(args) = <<>> THEN <<>> ELSE <<", ">>)
         \o ExtraArgs(Tail(args))

RECURSIVE Sprintf(_, _)
Sprintf(format, args) ==
    IF format = <<>>
    THEN IF args = <<>> THEN <<>>
         ELSE <<BadVerb, "(EXTRA ">> \o ExtraArgs(args) \o <<")">>
    ELSE LET tok == Head(format) IN
         IF tok \in Verbs \cup {BadVerb}
         THEN IF args = <<>>
              THEN Missing(tok) \o Sprintf(Tail(format), args)
              ELSE FormatArg(tok, Head(args)) \o Sprintf(Tail(format), Tail(args))
         ELSE <<tok>> \o Sprintf(Tail(format), args)

\* ------------------------------------------------------- package strconv
Digit(d) ==
    CASE d = 0 -> "0" [] d = 1 -> "1" [] d = 2 -> "2" [] d = 3 -> "3"
      [] d = 4 -> "4" [] d = 5 -> "5" [] d = 6 -> "6" [] d = 7 -> "7"
      [] d = 8 -> "8" [] d = 9 -> "9"

RECURSIVE FormatNat(_)
FormatNat(n) ==
    IF n < 10 THEN <<Digit(n)>> ELSE FormatNat(n \div 10) \o <<Digit(n % 10)>>

FormatInt(n) == IF n < 0 THEN <<"-">> \o FormatNat(0 - n) ELSE FormatNat(n)

\* ------------------------------------------------------ the four P methods
\* func (d debug) P: the records one call hands to the sink
debugP(d, preposition, tag, format, args) ==
    IF d
    THEN <<Sprintf(preposition \o <<"/">> \o tag \o <<" : ">> \o format \o <<KRESET>>, args)>>
    ELSE <<>>

\* mutant of lgP: the flag test left out
lgP_Ungated(l, preposition, tag, format, args) ==
    <<Sprintf(preposition \o <<"/">> \o tag \o <<" : ">> \o format \o <<KRESET>>, args)>>

\* func (l lg) P
lgP(l, preposition, tag, format, args) ==
    IF l
    THEN <<Sprintf(preposition \o <<"/">> \o tag \o <<" : ">> \o format \o <<KRESET>>, args)>>
    ELSE <<>>

\* func (i info) P
infoP(i, preposition, tag, format, args) ==
    IF i
    THEN <<Sprintf(preposition \o <<"/">> \o tag \o <<" : ">> \o format \o <<KRESET>>, args)>>
    ELSE <<>>

\* func (v verbose) P
verboseP(v, preposition, tag, format, args) ==
    IF v
    THEN <<Sprintf(preposition \o <<"/">> \o tag \o <<" : ">> \o format \o <<KRESET>>, args)>>
    ELSE <<>>

\* mutant of P: INFO also needs the flag of WARN, ERROR and WTF, as under one
\* ordered threshold
P_InfoUnderLog(f, recv, preposition, tag, format, args) ==
    CASE recv = "Debugging" -> debugP(f.Debugging, preposition, tag, format, args)
      [] recv = "v" -> verboseP(f.v, preposition, tag, format, args)
      [] recv = "i" -> infoP(f.i /\ f.l, preposition, tag, format, args)
      [] recv = "l" -> lgP(f.l, preposition, tag, format, args)

\* the receiver each level function calls P on, under the flags f
P(f, recv, preposition, tag, format, args) ==
    CASE recv = "Debugging" -> debugP(f.Debugging, preposition, tag, format, args)
      [] recv = "v" -> verboseP(f.v, preposition, tag, format, args)
      [] recv = "i" -> infoP(f.i, preposition, tag, format, args)
      [] recv = "l" -> lgP(f.l, preposition, tag, format, args)

\* the receiver, the preposition and the format each level function passes
Receiver(level) ==
    CASE level = "DEBUG" -> "Debugging"
      [] level = "VERBOSE" -> "v"
      [] level = "INFO" -> "i"
      [] level \in {"WARN", "ERROR", "WTF"} -> "l"

Preposition(level) ==
    CASE level = "DEBUG" -> <<KNRM, "DEBUG">>
      [] level = "VERBOSE" -> <<KFNT, "VERBOSE">>
      [] level = "INFO" -> <<KGRN, "INFO">>
      [] level = "WARN" -> <<KYEL, "WARN">>
      [] level = "ERROR" -> <<KRED, "ERROR">>
      [] level = "WTF" -> <<KMAG, "WTF">>

\* mutant of Stamped: the line carries microseconds, the id nanoseconds
Stamped_Micros(timeKey, format) == FormatInt(timeKey \div 1000) \o <<" -- ">> \o format

\* strconv.FormatInt(timeKey, 10)+" -- "+format
Stamped(timeKey, format) == FormatInt(timeKey) \o <<" -- ">> \o format

\* E's format after its two Sprintf calls
Composed(format, args, stack) ==
    Sprintf(format, args) \o Sprintf(<<"\n StackTrace : ", "%v">>, <<stack>>)

\* mutant of Result: the clock is read again at the return
Result_ReadAgain(level, timeKey) == IF level \in StampLevels THEN <<now>> ELSE <<>>

\* mutant of Result: no id when the level is disabled
Result_ZeroWhenDisabled(level, timeKey) ==
    IF level \in StampLevels
    THEN IF flags[Receiver(level)] THEN <<timeKey>> ELSE <<0>>
    ELSE <<>>

\* what a level function returns: nothing (D, V) or timeKey
Result(level, timeKey) == IF level \in StampLevels THEN <<timeKey>> ELSE <<>>

\* ----------------------------------------------------------------- state
Idle ==
    [pc |-> "idle", level |-> "", tag |-> <<>>, format |-> <<>>, args |-> <<>>,
     stack |-> <<>>, t0 |-> 0, timeKey |-> 0, pformat |-> <<>>, pargs |-> <<>>,
     ret |-> <<>>, floor |-> <<>>]

FlagSets == [Debugging : BOOLEAN, v : BOOLEAN, i : BOOLEAN, l : BOOLEAN, Develop : BOOLEAN]

\* the constants as src/dbg.go sets them
SourceFlags == [Debugging |-> TRUE, v |-> TRUE, i |-> TRUE, l |-> TRUE, Develop |-> TRUE]

\* The logging flags are build constants: any setting, fixed for the run.
Init ==
    /\ flags \in {f \in FlagSets : f.Develop = SourceFlags.Develop}
    /\ now = StartTime
    /\ clockSetBack = FALSE
    /\ call = [g \in Callers |-> Idle]
    /\ sink = <<>>
    /\ maxId = <<>>
    /\ req = NoRequest
    /\ reqOut = <<>>

\* -------------------------------------------------------------- the clock
Tick ==
    /\ now < StartTime + MaxTime
    /\ now' = now + 1
    /\ UNCHANGED <<flags, clockSetBack, call, sink, maxId, req, reqOut>>

\* the wall clock is stepped backwards (an NTP step, the operator setting it)
SetBack ==
    /\ \E t \in StartTime..(now - 1) : now' = t
    /\ clockSetBack' = TRUE
    /\ UNCHANGED <<flags, call, sink, maxId, req, reqOut>>

\* ------------------------------------------------------- level functions
\* The function up to its call of P: the locals it has set by then.  t0 and
\* floor are history, kept for the functions that read the clock: the clock
\* at entry, and the greatest id returned before the call began.
Enter(g, level, tag, format, args, stack, timeKey, pformat, pargs) ==
    /\ call[g].pc = "idle"
    /\ call' = [call EXCEPT ![g] =
                  [pc |-> "P", level |-> level, tag |-> tag, format |-> format,
                   args |-> args, stack |-> stack,
                   t0 |-> IF level \in StampLevels THEN now ELSE 0,
                   timeKey |-> timeKey,
                   pformat |-> pformat, pargs |-> pargs, ret |-> <<>>,
                   floor |-> IF level \in StampLevels THEN maxId ELSE <<>>]]
    /\ UNCHANGED <<flags, now, clockSetBack, sink, maxId, req, reqOut>>

D(g, tag, format, args) ==
    Enter(g, "DEBUG", tag, format, args, <<>>, 0, format, args)

V(g, tag, format, args) ==
    Enter(g, "VERBOSE", tag, format, args, <<>>, 0, format, args)

I(g, tag, format, args) ==
    Enter(g, "INFO", tag, format, args, <<>>, now, Stamped(now, format), args)

W(g, tag, format, args) ==
    Enter(g, "WARN", tag, format, args, <<>>, now, Stamped(now, format), args)

E(g, tag, format, args, stack) ==
    Enter(g, "ERROR", tag, format, args, stack, now,
          Stamped(now, Composed(format, args, stack)), <<>>)

WTF(g, tag, format, args) ==
    Enter(g, "WTF", tag, format, args, <<>>, now, Stamped(now, format), args)

Max(a, b) == IF a >= b THEN a ELSE b

\* mutant of Finish: P prints the header and the message with two log.Printf
\* calls
Finish_SplitWrite(g) ==
    LET c == call[g]
        on == flags[Receiver(c.level)]
        r == Result(c.level, c.timeKey)
    IN  \/ /\ c.pc = "P"
           /\ sink' = sink \o
                (IF on
                 THEN <<[g |-> g,
                         text |-> Sprintf(Preposition(c.level) \o <<"/">> \o c.tag
                                          \o <<" : ">>, <<>>)]>>
                 ELSE <<>>)
           /\ call' = [call EXCEPT ![g].pc = "P2"]
           /\ UNCHANGED <<flags, now, clockSetBack, maxId, req, reqOut>>
        \/ /\ c.pc = "P2"
           /\ sink' = sink \o
                (IF on
                 THEN <<[g |-> g, text |-> Sprintf(c.pformat \o <<KRESET>>, c.pargs)]>>
                 ELSE <<>>)
           /\ call' = [call EXCEPT ![g].pc = "done", ![g].ret = r]
           /\ maxId' = IF r = <<>> THEN maxId
                       ELSE IF maxId = <<>> THEN r
                       ELSE <<Max(r[1], maxId[1])>>
           /\ UNCHANGED <<flags, now, clockSetBack, req, reqOut>>

\* The call of P (the flag test and, when it passes, log.Printf) and the
\* return statement after it.
Finish(g) ==
    /\ call[g].pc = "P"
    /\ LET c == call[g]
           lines == P(flags, Receiver(c.level), Preposition(c.level), c.tag,
                      c.pformat, c.pargs)
           r == Result(c.level, c.timeKey)
       IN  /\ sink' = sink \o [k \in 1..Len(lines) |-> [g |-> g, text |-> lines[k]]]
           /\ call' = [call EXCEPT ![g].pc = "done", ![g].ret = r]
           /\ maxId' = IF r = <<>> THEN maxId
                       ELSE IF maxId = <<>> THEN r
                       ELSE <<Max(r[1], maxId[1])>>
    /\ UNCHANGED <<flags, now, clockSetBack, req, reqOut>>

\* ------------------------------------------------------------ GetRequest
GetRequestResult(develop, r) ==
    IF develop
    THEN [kind |-> "request", request |-> r, text |-> <<>>]
    ELSE [kind |-> "string", request |-> NoRequest,
          text |-> Sprintf(<<"[", "%s", "] ", "%q", " ", "%v", "\n">>,
                           << <<r.Method>>, <<r.Path>> >>)]

GetRequest ==
    /\ req # NoRequest
    /\ reqOut = <<>>
    /\ reqOut' = <<GetRequestResult(flags.Develop, req)>>
    /\ UNCHANGED <<flags, now, clockSetBack, call, sink, maxId, req>>

\* the develop flag either way, the logging flags as the source sets them
InitReq ==
    /\ flags \in {f \in FlagSets : /\ f.Debugging = SourceFlags.Debugging
                                   /\ f.v = SourceFlags.v
                                   /\ f.i = SourceFlags.i
                                   /\ f.l = SourceFlags.l}
    /\ now = StartTime
    /\ clockSetBack = FALSE
    /\ call = [g \in Callers |-> Idle]
    /\ sink = <<>>
    /\ maxId = <<>>
    /\ req \in [Method : Methods, Path : Paths, RawQuery : Queries]
    /\ reqOut = <<>>

\* --------------------------------------------------------- specifications
Next ==
    \/ Tick
    \/ SetBack
    \/ \E g \in Callers, inp \in Inputs :
         \/ D(g, inp.tag, inp.format, inp.args)
         \/ V(g, inp.tag, inp.format, inp.args)
         \/ I(g, inp.tag, inp.format, inp.args)
         \/ W(g, inp.tag, inp.format, inp.args)
         \/ \E stack \in Stacks : E(g, inp.tag, inp.format, inp.args, stack)
         \/ WTF(g, inp.tag, inp.format, inp.args)
    \/ \E g \in Callers : Finish(g)

Spec == Init /\ [][Next]_vars

NextReq == GetRequest

SpecReq == InitReq /\ [][NextReq]_vars

\* ================================================================ claims
\* ------------------------------------------------- reading token strings
\* sub occurs in s at position k
OccursAt(s, sub, k) ==
    /\ k >= 1
    /\ k + Len(sub) - 1 <= Len(s)
    /\ \A j \in 1..Len(sub) : s[k + j - 1] = sub[j]

Contains(s, sub) == \E k \in 1..(Len(s) + 1) : OccursAt(s, sub, k)

\* the parts occur in s one after the other, without overlap, from position k on
RECURSIVE InOrderFrom(_, _, _)
InOrderFrom(s, parts, k) ==
    IF parts = <<>> THEN TRUE
    ELSE \E j \in k..(Len(s) + 1) :
            /\ OccursAt(s, Head(parts), j)
            /\ InOrderFrom(s, Tail(parts), j + Len(Head(parts)))

Tokens(s) == {s[k] : k \in DOMAIN s}

DigitTokens == {"0", "1", "2", "3", "4", "5", "6", "7", "8", "9"}

DigitValue(tok) == CHOOSE d \in 0..9 : Digit(d) = tok

RECURSIVE ParseDecimal(_)
ParseDecimal(s) ==
    IF s = <<>> THEN 0
    ELSE 10 * ParseDecimal(SubSeq(s, 1, Len(s) - 1)) + DigitValue(s[Len(s)])

\* <<the number printed immediately before the first " -- " of text>>, or <<>>
StampOf(text) ==
    IF " -- " \notin Tokens(text) THEN <<>>
    ELSE LET k == CHOOSE i \in DOMAIN text :
                    /\ text[i] = " -- "
                    /\ \A j \in 1..(i - 1) : text[j] # " -- "
             first == CHOOSE i \in 1..k :
                    /\ \A j \in i..(k - 1) : text[j] \in DigitTokens
                    /\ \A h \in 1..(i - 1) :
                          \E j \in h..(k - 1) : text[j] \notin DigitTokens
         IN  IF first = k THEN <<>> ELSE <<ParseDecimal(SubSeq(text, first, k - 1))>>

\* ---------------------------------------------------- what the claims name
\* the records goroutine g's call wrote
Written(g) == SelectSeq(sink, LAMBDA r : r.g = g)

Done(g) == call[g].pc = "done"

\* the flag the claims say gates each level
GateOf(level) ==
    CASE level = "DEBUG" -> "Debugging"
      [] level = "VERBOSE" -> "v"
      [] level = "INFO" -> "i"
      [] OTHER -> "l"

\* the colour the claims give each level
ColorOf(level) ==
    CASE level = "DEBUG" -> KNRM
      [] level = "VERBOSE" -> KFNT
      [] level = "INFO" -> KGRN
      [] level = "WARN" -> KYEL
      [] level = "ERROR" -> KRED
      [] level = "WTF" -> KMAG

Colors == {ColorOf(level) : level \in Levels}

StackHeader == "\n StackTrace : "

\* ------------------------------------------------------------------- C1
\* C1: a call of a level function whose gating flag (Debugging for D, v for
\* V, i for I, l for W, E and WTF) is false writes nothing to the sink.
C1_NoWriteWhenDisabled ==
    \A g \in Callers :
        (Done(g) /\ ~flags[GateOf(call[g].level)]) => Written(g) = <<>>

C1_Witness ==
    \E g \in Callers :
        /\ Done(g)
        /\ call[g].level = "ERROR"
        /\ ~flags.l
        /\ Written(g) = <<>>

\* ------------------------------------------------------------------- C2
\* C2: the id I, W, E and WTF return is the clock reading taken when the call
\* began, before the flag is tested, whether the flag is on or off.
C2_IdIsEntryTime ==
    \A g \in Callers :
        (Done(g) /\ call[g].level \in StampLevels) => call[g].ret = <<call[g].t0>>

C2_Witness ==
    \E g \in Callers :
        /\ Done(g)
        /\ call[g].level \in StampLevels
        /\ ~flags[GateOf(call[g].level)]
        /\ now # call[g].t0
        /\ call[g].ret = <<call[g].t0>>

\* ------------------------------------------------------------------- C3
\* whether g's call would write under the flags f
EmitsUnder(f, g) ==
    P(f, Receiver(call[g].level), Preposition(call[g].level), call[g].tag,
      call[g].pformat, call[g].pargs) # <<>>

\* setting one of the flags in names either way leaves unchanged whether g's
\* call writes
Unaffected(g, names) ==
    LET wrote == \E k \in DOMAIN sink : sink[k].g = g IN
    \A name \in names :
        EmitsUnder([flags EXCEPT ![name] = ~flags[name]], g) = wrote

\* C3 as claimed: for two distinct levels A and B, setting A's flag either
\* way leaves unchanged whether a call of B writes.
C3_IndependentPerLevel ==
    \A g \in Callers :
        Done(g) =>
            Unaffected(g, {GateOf(A) : A \in Levels \ {call[g].level}})

\* C3 as amended: the same for two levels gated by different flags; WARN,
\* ERROR and WTF share the one flag l.
C3_IndependentPerFlag ==
    \A g \in Callers :
        Done(g) =>
            Unaffected(g, {GateOf(A) : A \in {B \in Levels :
                                               GateOf(B) # GateOf(call[g].level)}})

C3_Witness ==
    \E g \in Callers :
        /\ Done(g)
        /\ call[g].level = "WARN"
        /\ ~flags.i
        /\ Written(g) # <<>>

\* ------------------------------------------------------------------- C4
\* C4: every line written holds, in this order, the level's colour code, the
\* level's name, "/", the tag, " : ", the message interpolated from format
\* and args, and ends with the reset code.
C4_LineShape ==
    \A k \in DOMAIN sink :
        LET c == call[sink[k].g]
            text == sink[k].text
        IN  /\ InOrderFrom(text, << <<ColorOf(c.level)>>, <<c.level>>, <<"/">>, c.tag,
                                    <<" : ">>, Sprintf(c.format, c.args) >>, 1)
            /\ text[Len(text)] = KRESET

\* ------------------------------------------------------------------- C5
\* C5: a line E writes holds the interpolated message, then the header
\* "StackTrace :", then the non-empty stack text; no other level's line holds
\* a stack trace.
C5_StackTrace ==
    \A k \in DOMAIN sink :
        LET c == call[sink[k].g]
            text == sink[k].text
        IN  IF c.level = "ERROR"
            THEN /\ c.stack # <<>>
                 /\ InOrderFrom(text, <<Sprintf(c.format, c.args), <<StackHeader>>,
                                        c.stack>>, 1)
            ELSE StackHeader \notin Tokens(text)

\* ------------------------------------------------------------------- C6
\* C6: GetRequest returns the request itself when Develop is on; when it is
\* off, a string made of the method and the path and of nothing that stands
\* for an absent argument, and without the query.
C6_RequestSummary ==
    reqOut # <<>> =>
        LET out == reqOut[1] IN
        IF flags.Develop
        THEN out.kind = "request" /\ out.request = req
        ELSE /\ out.kind = "string"
             /\ req.Method \in Tokens(out.text)
             /\ req.Path \in Tokens(out.text)
             /\ Tokens(out.text) \subseteq {req.Method, req.Path, "[", "] ", "\"", " ", "\n"}

\* ------------------------------------------------------------------- C7
\* one whole line: a colour code, a level name, and a reset code after them,
\* with no second level header inside
WholeLine(text) ==
    /\ Len(text) >= 3
    /\ text[1] \in Colors
    /\ text[2] \in Levels
    /\ \E j \in 3..Len(text) : text[j] = KRESET
    /\ \A j \in 3..Len(text) : text[j] \notin Levels

\* C7: with goroutines calling the level functions concurrently, every record
\* of the sink is the whole line of one call, and a call has one record at
\* most: no line is split or mixed with another.
C7_LinesWhole ==
    /\ \A k \in DOMAIN sink : WholeLine(sink[k].text)
    /\ \A g \in Callers : Len(Written(g)) <= 1

\* both calls were in progress at once, and both wrote
C7_Witness ==
    /\ Len(sink) = 2
    /\ sink[1].g # sink[2].g
    /\ \A g \in Callers :
          Done(g) /\ call[g].level \in StampLevels /\ call[g].floor = <<>>

\* ------------------------------------------------------------------- C8
\* C8 as claimed: a call of I, W, E or WTF never returns an id smaller than
\* the id an earlier call returned.
C8_IdsNonDecreasing ==
    \A g \in Callers :
        (Done(g) /\ call[g].level \in StampLevels /\ call[g].floor # <<>>)
            => call[g].ret[1] >= call[g].floor[1]

\* C8 as amended: the same, as long as the wall clock has not been set
\* backwards.
C8_IdsNonDecreasingUnlessSetBack ==
    ~clockSetBack => C8_IdsNonDecreasing

C8_Witness ==
    \E g \in Callers :
        /\ Done(g)
        /\ call[g].level \in StampLevels
        /\ call[g].floor # <<>>
        /\ ~clockSetBack
        /\ call[g].ret[1] > call[g].floor[1]

\* ------------------------------------------------------------------- C9
\* C9: the text E composes, the interpolated message followed by the stack
\* trace, is in the line E writes exactly as composed.
C9_ComposedVerbatim ==
    \A k \in DOMAIN sink :
        LET c == call[sink[k].g] IN
        c.level = "ERROR" =>
            Contains(sink[k].text,
                     Sprintf(c.format, c.args) \o <<StackHeader>> \o c.stack)

\* ------------------------------------------------------------------ C10
\* C10: an enabled call of I, W, E or WTF writes exactly one line, and the
\* number printed in it right before " -- " is the id the call returns; a
\* line of D or V has no such prefix, and D and V return nothing.
C10_IdNamesTheLine ==
    \A g \in Callers :
        Done(g) =>
            IF call[g].level \in StampLevels
            THEN flags[GateOf(call[g].level)] =>
                    /\ Len(Written(g)) = 1
                    /\ StampOf(Written(g)[1].text) = call[g].ret
            ELSE /\ call[g].ret = <<>>
                 /\ \A k \in DOMAIN Written(g) : StampOf(Written(g)[k].text) = <<>>

C10_Witness ==
    \E g \in Callers :
        /\ Done(g)
        /\ call[g].level = "INFO"
        /\ Len(Written(g)) = 1
        /\ call[g].ret = <<StartTime + 1>>
        /\ StampOf(Written(g)[1].text) = <<StartTime + 1>>

====
